---- MODULE Spec2Model ----
(***************************************************************************)
(* Model of the fal-ai/minimax/image-01 MCP server (src/src/index.ts):     *)
(* the credential flag set at startup, the four tool handlers              *)
(* (minimax_generate, minimax_generate_queue, minimax_queue_status,        *)
(* minimax_queue_result), the gateway calls they await, the sequential     *)
(* download loop, downloadImage's promise and file stream, and the text    *)
(* of every response.                                                      *)
(*                                                                         *)
(* A string is a sequence of pieces (TLA+ strings); text that the code     *)
(* processes character by character (prompts, request ids) is a sequence   *)
(* of one-character pieces.  Template literals are concatenations.         *)
(***************************************************************************)
EXTENDS Integers, Sequences, FiniteSets, TLC

VARIABLES
    falConfigured,     \* index.ts:14  the process-wide credential flag
    crashed,           \* the process has ended (an uncaught 'error' event)
    window,            \* how many requests the MCP client keeps outstanding
    imagesReturned,    \* image descriptors the gateway has returned so far
    files,             \* names of the files present in images/
    orphans,           \* write streams still opening after their promise settled
    pc,                \* per call: where the handler is
    tool,              \* per call: the tool called
    args,              \* per call: the arguments object
    gw,                \* per call: the gateway calls this invocation made
    result,            \* per call: what the gateway returned
    downloadedImages,  \* per call: the entries pushed so far
    i,                 \* per call: the loop index of the download loop
    dl,                \* per call: the downloadImage in progress
    response,          \* per call: the response envelope returned
    namingSeed,        \* the string fed to the filename transform
    stage,             \* how often the transform has been applied
    once,              \* the transform applied once
    twice,             \* the transform applied twice
    generated          \* the filename generated from the naming seed

vars == <<falConfigured, crashed, window, imagesReturned, files, orphans, pc, tool, args, gw, result,
          downloadedImages, i, dl, response, namingSeed, stage, once, twice,
          generated>>

serverVars == <<falConfigured, crashed, window, imagesReturned, files, orphans, pc, tool,
                args, gw, result, downloadedImages, i, dl, response>>

transformVars == <<namingSeed, stage, once, twice, generated>>

----------------------------------------------------------------------------
(* Bounds of the model *)

\* image descriptors the gateway returns during one process run
MaxImages == 2
\* characters of an enumerated naming seed (before padding)
MaxSeedLen == 3

(* Program constants *)

\* .substring(0, 50)
MaxPromptChars == 50
\* inputSchema.num_images.minimum / maximum
NumImagesMinimum == 1
NumImagesMaximum == 9

----------------------------------------------------------------------------
(* Strings *)

Min(a, b) == IF a < b THEN a ELSE b

\* s.includes(sub): sub occurs in s as a contiguous run of pieces
Contains(s, sub) ==
    \E k \in 0..(Len(s) - Len(sub)) : SubSeq(s, k + 1, k + Len(sub)) = sub

LowerLetters ==
    {"a", "b", "c", "d", "e", "f", "g", "h", "i", "j", "k", "l", "m", "n", "o",
     "p", "q", "r", "s", "t", "u", "v", "w", "x", "y", "z"}

Digits == {"0", "1", "2", "3", "4", "5", "6", "7", "8", "9"}

\* what \s matches, among the characters of the model
WhitespaceChars == {" ", "\t", "\n"}

\* String.prototype.toLowerCase on one character (the upper-case letters of the model)
LowerChar(ch) ==
    CASE ch = "A" -> "a"
      [] ch = "B" -> "b"
      [] ch = "Q" -> "q"
      [] ch = "R" -> "r"
      [] OTHER -> ch

ToLowerCase(s) == [k \in 1..Len(s) |-> LowerChar(s[k])]

\* the mutant of StripUnsafe: the character class also keeps the underscore
StripUnsafe_keepsUnderscore(s) ==
    SelectSeq(s, LAMBDA ch : ch \in LowerLetters \cup Digits \cup WhitespaceChars \cup {"_"})

\* .replace(/[^a-z0-9\s]/g, '')
StripUnsafe(s) ==
    SelectSeq(s, LAMBDA ch : ch \in LowerLetters \cup Digits \cup WhitespaceChars)

RECURSIVE DropWhitespace(_)
DropWhitespace(s) ==
    IF s # <<>> /\ Head(s) \in WhitespaceChars THEN DropWhitespace(Tail(s)) ELSE s

\* .replace(/\s+/g, '_'): every maximal run of whitespace becomes one underscore
RECURSIVE CollapseWhitespace(_)
CollapseWhitespace(s) ==
    IF s = <<>> THEN <<>>
    ELSE IF Head(s) \in WhitespaceChars
         THEN <<"_">> \o CollapseWhitespace(DropWhitespace(Tail(s)))
         ELSE <<Head(s)>> \o CollapseWhitespace(Tail(s))

\* .substring(0, n)
Substring0(s, n) == SubSeq(s, 1, Min(Len(s), n))

\* the safePrompt of generateImageFilename
SafePrompt(prompt) ==
    Substring0(CollapseWhitespace(StripUnsafe(ToLowerCase(prompt))), MaxPromptChars)

\* String(n) for a natural number, character by character
RECURSIVE NaturalToString(_)
NaturalToString(n) ==
    LET digit == CHOOSE ch \in Digits : ToString(n % 10) = ch
    IN IF n < 10 THEN <<digit>> ELSE NaturalToString(n \div 10) \o <<digit>>

\* `${n}` for an integer
NumberToString(n) ==
    IF n < 0 THEN <<"-">> \o NaturalToString(0 - n) ELSE NaturalToString(n)

\* new Date().toISOString() when the clock shows the milliseconds ms (three
\* digits) of its second: YYYY-MM-DDTHH:mm:ss.sssZ
ToISOString(ms) ==
    <<"2", "0", "2", "5", "-", "0", "6", "-", "0", "1", "T",
      "1", "2", ":", "0", "0", ":", "0", "0", ".">> \o ms \o <<"Z">>

\* the mutant of ReplaceColonDot: only the dots are replaced
ReplaceColonDot_dotsOnly(s) ==
    [k \in 1..Len(s) |-> IF s[k] = "." THEN "-" ELSE s[k]]

\* .replace(/[:.]/g, '-')
ReplaceColonDot(s) ==
    [k \in 1..Len(s) |-> IF s[k] \in {":", "."} THEN "-" ELSE s[k]]

\* seed ? `_${seed}` : ''  (an optional value is <<>> when undefined and <<v>>
\* otherwise; 0 is falsy)
SeedStr(seed) ==
    IF seed # <<>> /\ seed[1] # 0 THEN <<"_">> \o NumberToString(seed[1]) ELSE <<>>

generateImageFilename(prompt, index, seed, now) ==
    <<"m", "i", "n", "i", "m", "a", "x", "_">> \o SafePrompt(prompt) \o SeedStr(seed)
        \o <<"_">> \o NumberToString(index) \o <<"_">>
        \o ReplaceColonDot(ToISOString(now))
        \o <<".", "p", "n", "g">>

----------------------------------------------------------------------------
(* Objects: a JavaScript object is a function from its own keys *)

Has(o, k) == k \in DOMAIN o
Get(o, k, default) == IF k \in DOMAIN o THEN o[k] ELSE default
\* the mutant of Without: the key stays in the rest object
Without_keepsKey(o, k) == o

\* const { k, ...rest } = o
Without(o, k) == [x \in DOMAIN o \ {k} |-> o[x]]
EmptyObject == [x \in {} |-> x]
\* the objects that carry key k with a value of V, or do not carry it
Opt(k, V) == {EmptyObject} \cup {k :> v : v \in V}

Slots == {1, 2}
Tools ==
    {"minimax_generate", "minimax_generate_queue", "minimax_queue_status",
     "minimax_queue_result"}
Endpoint == "fal-ai/minimax/image-01"

(* Inputs of the model *)

Prompts == {<<"A", " ", "b", "!">>}
\* the milliseconds new Date() shows while the calls of the model run
Milliseconds == {<<"0", "0", "0">>}
AspectRatios == {"16:9"}
NumImagesValues == {0, 1, 9, 10}
RequestIds == {<<"a", "b", "c", "1", "2", "3">>, <<"R", "-", "9">>}
WebhookUrls == {"https://hook.example/cb"}
Urls == {"https://cdn.example/a.png", "not a url"}
\* new URL(url) throws on these
InvalidUrls == {"not a url"}
Seeds == {0, 7}
ErrorMessages == {<<"Unauthorized">>, <<"Unprocessable Entity">>}
HttpStatuses == {200, 404}
QueueStatuses == {"IN_PROGRESS", "COMPLETED"}

GenerateArgs ==
    {p @@ n : p \in Opt("prompt", Prompts), n \in Opt("num_images", NumImagesValues)}
    \cup {("prompt" :> p) @@ a @@ o @@ s :
             p \in Prompts, a \in Opt("aspect_ratio", AspectRatios),
             o \in Opt("prompt_optimizer", BOOLEAN), s \in Opt("sync_mode", {FALSE})}

GenerateQueueArgs ==
    {p @@ a @@ n @@ w :
        p \in Opt("prompt", Prompts), a \in Opt("aspect_ratio", AspectRatios),
        n \in Opt("num_images", NumImagesValues),
        w \in Opt("webhook_url", WebhookUrls)}
    \cup {("prompt" :> p) @@ ("prompt_optimizer" :> o) : p \in Prompts, o \in BOOLEAN}

QueueStatusArgs ==
    {r @@ l : r \in Opt("request_id", RequestIds), l \in Opt("logs", {FALSE})}

QueueResultArgs == Opt("request_id", RequestIds)

ArgsOf(t) ==
    CASE t = "minimax_generate" -> GenerateArgs
      [] t = "minimax_generate_queue" -> GenerateQueueArgs
      [] t = "minimax_queue_status" -> QueueStatusArgs
      [] t = "minimax_queue_result" -> QueueResultArgs

RECURSIVE SeqsUpTo(_, _)
SeqsUpTo(S, n) ==
    IF n = 0 THEN {<<>>}
    ELSE LET shorter == SeqsUpTo(S, n - 1)
         IN shorter \cup {Append(q, x) : q \in {r \in shorter : Len(r) = n - 1}, x \in S}

\* MinimaxImageResult
ImageResults ==
    {[images |-> im] @@ sd :
        im \in SeqsUpTo({[url |-> u] : u \in Urls}, MaxImages), sd \in Opt("seed", Seeds)}

\* what fal.subscribe and fal.queue.result resolve with
DataResults == {[data |-> d, requestId |-> <<"g", "7">>] : d \in ImageResults}
\* what fal.queue.submit resolves with
SubmitResults == {[request_id |-> r] : r \in RequestIds}
\* what fal.queue.status resolves with
StatusResults ==
    {[status |-> st] @@ ru @@ lg :
        st \in QueueStatuses,
        ru \in Opt("response_url", {"https://queue.example/r"}),
        lg \in Opt("logs", {<<>>, <<[timestamp |-> "t0", message |-> "working"]>>})}

ResultsOf(t) ==
    CASE t \in {"minimax_generate", "minimax_queue_result"} -> DataResults
      [] t = "minimax_generate_queue" -> SubmitResults
      [] t = "minimax_queue_status" -> StatusResults

\* what the gateway calls reject with: instances of Error
GatewayErrors == {[isError |-> TRUE, message |-> m] : m \in ErrorMessages}

----------------------------------------------------------------------------
(* The tool dispatcher's schema check (the inputSchema of each tool) *)

\* the mutant of ValidNumImages: the maximum is not enforced
ValidNumImages_noMaximum(n) == n >= NumImagesMinimum

\* inputSchema.properties.num_images: minimum 1, maximum 9
ValidNumImages(n) == n >= NumImagesMinimum /\ n <= NumImagesMaximum

\* required: [...] and the constraints of the properties the model varies
ValidArgs(t, a) ==
    IF t \in {"minimax_generate", "minimax_generate_queue"}
    THEN /\ Has(a, "prompt")
         /\ Has(a, "num_images") => ValidNumImages(a["num_images"])
    ELSE Has(a, "request_id")

\* the protocol layer's answer to arguments that fail the schema
SchemaRejection(t) == [isError |-> TRUE, text |-> <<"Invalid arguments for tool ", t>>]

----------------------------------------------------------------------------
(* Responses *)

\* the mutant of NotConfigured: minimax_queue_status does not check the flag
NotConfigured_statusUnchecked(t, configured) ==
    ~configured /\ t # "minimax_queue_status"

\* if (!falConfigured) return { ..., isError: true }   (the same in the four handlers)
NotConfigured(t, configured) == ~configured

NotConfiguredResponse ==
    [isError |-> TRUE,
     text |-> <<"Error: FAL_KEY environment variable is not set. Please configure your fal.ai API key.">>]

\* the first sentence of each handler's errorMessage
FailurePrefix(t) ==
    CASE t = "minimax_generate" -> "Failed to generate image with fal-ai/minimax/image-01."
      [] t = "minimax_generate_queue" -> "Failed to submit queue request for fal-ai/minimax/image-01."
      [] t = "minimax_queue_status" -> "Failed to check queue status."
      [] t = "minimax_queue_result" -> "Failed to get queue result."

\* the mutant of ErrorResponse: the underlying message is dropped
ErrorResponse_noMessage(t, error) ==
    [isError |-> TRUE, text |-> <<FailurePrefix(t)>>]

\* the catch block of a handler
ErrorResponse(t, error) ==
    [isError |-> TRUE,
     text |-> <<FailurePrefix(t)>>
                \o (IF error.isError THEN <<" Error: ">> \o error.message ELSE <<>>)]

\* array.join(sep) of texts
RECURSIVE Join(_, _)
Join(texts, sep) ==
    IF texts = <<>> THEN <<>>
    ELSE IF Len(texts) = 1 THEN texts[1]
    ELSE texts[1] \o <<sep>> \o Join(Tail(texts), sep)

\* path.join(process.cwd(), 'images', filename)
FilePath(filename) == <<"/cwd", "/", "images", "/">> \o filename

\* the mutant of DownloadEntry: the index is the loop variable, not i + 1
DownloadEntry_zeroBased(image, localPath, index, filename) ==
    [url |-> image.url, localPath |-> localPath, index |-> index - 1,
     content_type |-> Get(image, "content_type", "image/png"),
     file_name |-> Get(image, "file_name", filename),
     file_size |-> IF Has(image, "file_size") THEN <<image.file_size>> ELSE <<>>,
     filename |-> filename]

\* the object pushed to downloadedImages; localPath is <<>> for null
DownloadEntry(image, localPath, index, filename) ==
    [url |-> image.url, localPath |-> localPath, index |-> index,
     content_type |-> Get(image, "content_type", "image/png"),
     file_name |-> Get(image, "file_name", filename),
     file_size |-> IF Has(image, "file_size") THEN <<image.file_size>> ELSE <<>>,
     filename |-> filename]

\* the body of downloadedImages.map(img => ...)
ImageDetails(img) ==
    <<"Image ", ToString(img.index), ":">>
        \o (IF img.localPath # <<>> THEN <<"\n  Local Path: ">> \o img.localPath ELSE <<>>)
        \o <<"\n  Original URL: ", img.url>>
        \o <<"\n  Filename: ">> \o img.filename
        \o <<"\n  Content Type: ", img.content_type>>
        \o (IF img.file_size # <<>> /\ img.file_size[1] # 0
            THEN <<"\n  File Size: ", ToString(img.file_size[1]), " bytes">> ELSE <<>>)

AllImageDetails(imgs) == Join([k \in 1..Len(imgs) |-> ImageDetails(imgs[k])], "\n\n")

\* output.seed ? `Seed: ${output.seed}` : 'Seed: Auto-generated'
SeedLine(output) ==
    IF Has(output, "seed") /\ output["seed"] # 0
    THEN <<"Seed: ">> \o NumberToString(output["seed"])
    ELSE <<"Seed: Auto-generated">>

\* downloadedImages.some(img => img.localPath) ? ... : ...
DownloadNote(imgs) ==
    IF \E k \in 1..Len(imgs) : imgs[k].localPath # <<>>
    THEN <<"Images have been downloaded to the local 'images' directory.">>
    ELSE <<"Note: Local download failed, but original URLs are available.">>

\* the responseText of minimax_generate
GenerateResponse(a, res, imgs) ==
    [isError |-> FALSE,
     text |-> <<"Successfully generated ", ToString(Len(imgs)),
                " image(s) using fal-ai/minimax/image-01:\n\nPrompt: \"">>
              \o a["prompt"]
              \o <<"\"\nAspect Ratio: ", Get(a, "aspect_ratio", "1:1"),
                   "\nNumber of Images: ", ToString(Get(a, "num_images", 1)), "\n">>
              \o (IF Has(a, "prompt_optimizer")
                  THEN <<"Prompt Optimizer: ",
                         IF a["prompt_optimizer"] THEN "Enabled" ELSE "Disabled">>
                  ELSE <<>>)
              \o <<"\n">> \o SeedLine(res.data) \o <<"\nRequest ID: ">> \o res.requestId
              \o <<"\n\nGenerated Images:\n">> \o AllImageDetails(imgs) \o <<"\n\n">>
              \o DownloadNote(imgs)]

\* the responseText of minimax_queue_result
QueueResultResponse(a, res, imgs) ==
    [isError |-> FALSE,
     text |-> <<"Queue Result for Request ID: ">> \o a["request_id"]
              \o <<"\n\nSuccessfully completed! Generated ", ToString(Len(imgs)),
                   " image(s):\n\n">>
              \o SeedLine(res.data)
              \o <<"\n\nGenerated Images:\n">> \o AllImageDetails(imgs) \o <<"\n\n">>
              \o DownloadNote(imgs)]

\* the mutant of GenerateQueueResponse: the request id is left out of the text
GenerateQueueResponse_noRequestId(a, res) ==
    [isError |-> FALSE,
     text |-> <<"Successfully submitted image generation request to queue.\n\nPrompt: \"">>
              \o a["prompt"] \o <<"\"\n">>
              \o (IF Has(a, "webhook_url")
                  THEN <<"Webhook URL: ", a["webhook_url"]>>
                  ELSE <<"No webhook configured">>)
              \o <<"\n\nUse the request ID with minimax_queue_status to check progress or minimax_queue_result to get the final result.">>]

\* the text returned by minimax_generate_queue
GenerateQueueResponse(a, res) ==
    [isError |-> FALSE,
     text |-> <<"Successfully submitted image generation request to queue.\n\nRequest ID: ">>
              \o res.request_id \o <<"\nPrompt: \"">> \o a["prompt"] \o <<"\"\n">>
              \o (IF Has(a, "webhook_url")
                  THEN <<"Webhook URL: ", a["webhook_url"]>>
                  ELSE <<"No webhook configured">>)
              \o <<"\n\nUse the request ID with minimax_queue_status to check progress or minimax_queue_result to get the final result.">>]

\* statusAny.logs.map(log => `[${log.timestamp}] ${log.message}`).join('\n')
LogLines(logs) ==
    Join([k \in 1..Len(logs) |-> <<"[", logs[k].timestamp, "] ", logs[k].message>>], "\n")

\* the mutant of QueueStatusResponse: the heading does not show the request id
QueueStatusResponse_noRequestId(a, status) ==
    [isError |-> FALSE,
     text |-> <<"Queue Status\n\nStatus: ", status["status"]>>
              \o (IF Has(status, "response_url")
                  THEN <<"\nResponse URL: ", status["response_url"]>> ELSE <<>>)
              \o (IF Has(status, "logs") /\ Len(status["logs"]) > 0
                  THEN <<"\n\nLogs:\n">> \o LogLines(status["logs"]) ELSE <<>>)]

\* the responseText of minimax_queue_status
QueueStatusResponse(a, status) ==
    [isError |-> FALSE,
     text |-> <<"Queue Status for Request ID: ">> \o a["request_id"]
              \o <<"\n\nStatus: ", status["status"]>>
              \o (IF Has(status, "response_url")
                  THEN <<"\nResponse URL: ", status["response_url"]>> ELSE <<>>)
              \o (IF Has(status, "logs") /\ Len(status["logs"]) > 0
                  THEN <<"\n\nLogs:\n">> \o LogLines(status["logs"]) ELSE <<>>)]

----------------------------------------------------------------------------
(* The gateway calls *)

\* the mutant of GenerateInput: prompt_optimizer is added only when it is truthy
GenerateInput_optimizerWhenTrue(a) ==
    LET input == [prompt |-> a["prompt"],
                  aspect_ratio |-> Get(a, "aspect_ratio", "1:1"),
                  num_images |-> Get(a, "num_images", 1),
                  sync_mode |-> Get(a, "sync_mode", TRUE)]
    IN IF Has(a, "prompt_optimizer") /\ a["prompt_optimizer"]
       THEN input @@ ("prompt_optimizer" :> a["prompt_optimizer"])
       ELSE input

\* the input object minimax_generate builds
GenerateInput(a) ==
    LET input == [prompt |-> a["prompt"],
                  aspect_ratio |-> Get(a, "aspect_ratio", "1:1"),
                  num_images |-> Get(a, "num_images", 1),
                  sync_mode |-> Get(a, "sync_mode", TRUE)]
    IN IF Has(a, "prompt_optimizer")
       THEN input @@ ("prompt_optimizer" :> a["prompt_optimizer"])
       ELSE input

\* the call each handler makes: fal.subscribe, fal.queue.submit, .status, .result
GatewayRequest(t, a) ==
    CASE t = "minimax_generate" ->
           [op |-> "subscribe", endpoint |-> Endpoint, input |-> GenerateInput(a),
            logs |-> TRUE]
      [] t = "minimax_generate_queue" ->
           [op |-> "queue.submit", endpoint |-> Endpoint,
            input |-> Without(a, "webhook_url"),
            webhookUrl |-> IF Has(a, "webhook_url") THEN <<a["webhook_url"]>> ELSE <<>>]
      [] t = "minimax_queue_status" ->
           [op |-> "queue.status", endpoint |-> Endpoint,
            requestId |-> a["request_id"], logs |-> Get(a, "logs", TRUE)]
      [] t = "minimax_queue_result" ->
           [op |-> "queue.result", endpoint |-> Endpoint, requestId |-> a["request_id"]]

\* the mutant of GatewayCalls: a failed call is made a second time
GatewayCalls_retried(t, a) == <<GatewayRequest(t, a), GatewayRequest(t, a)>>

\* the gateway calls one invocation of a handler makes
GatewayCalls(t, a) == <<GatewayRequest(t, a)>>

\* the first argument of generateImageFilename in each handler
NamingSeedOf(t, a) ==
    IF t = "minimax_generate" THEN a["prompt"]
    ELSE <<"q", "u", "e", "u", "e", "_", "r", "e", "s", "u", "l", "t", "_">>
            \o a["request_id"]

\* output.seed as an optional value
SeedOf(output) == IF Has(output, "seed") THEN <<output["seed"]>> ELSE <<>>

----------------------------------------------------------------------------
(* downloadImage *)

NoDownload ==
    [phase |-> "none", file |-> "none", url |-> "", filename |-> <<>>, cause |-> "none"]

\* the executor of downloadImage's promise up to client.get(...): new URL(url)
\* throws on a malformed url; otherwise the write stream is created and the
\* request is sent
StartDownload(url, filename) ==
    IF url \in InvalidUrls
    THEN [phase |-> "rejected", file |-> "none", url |-> url, filename |-> filename,
          cause |-> "badurl"]
    ELSE [phase |-> "requested", file |-> "opening", url |-> url, filename |-> filename,
          cause |-> "none"]

\* file.on('error', ...) is registered inside the response callback, after the
\* 200 check: the stream has an 'error' listener only from then on
HasErrorListener(d) == d.phase \in {"piping", "stalled"}

\* the mutant of UnlinksPartialFile: every rejection deletes the file
UnlinksPartialFile_always(cause) == TRUE

\* fs.unlink(filePath, ...) is called on one path only, the 'error' listener of
\* the write stream
UnlinksPartialFile(cause) == cause = "fileerror"

\* the mutant of Settled: the promise is not awaited, the loop goes on at once
Settled_notAwaited(d) == d.phase # "none"

\* await downloadImage(...): the handler resumes when the promise has resolved
\* or rejected
Settled(d) == d.phase \in {"resolved", "rejected"}

\* the mutant of CaughtByDownloadCatch: the rejection reaches the handler's catch
CaughtByDownloadCatch_not(d) == FALSE

\* try { await downloadImage(...) } catch (downloadError) { ... }
CaughtByDownloadCatch(d) == d.phase = "rejected"

\* what the await gives: the path, or null (<<>>) in the catch
LocalPathOf(d) == IF d.phase = "resolved" THEN FilePath(d.filename) ELSE <<>>

DownloadErrorOf(d) == [isError |-> TRUE, message |-> <<"Failed to download image: ", d.cause>>]

----------------------------------------------------------------------------
(* The server *)

NoResponse == [isError |-> FALSE, text |-> <<>>]

\* process.env.FAL_KEY: undefined (<<>>), the empty string, or a key
FalKeys == {<<>>, <<"">>, <<"key-1">>}

\* the else branch of if (!FAL_KEY): falConfigured = true
KeyPresent(FAL_KEY) == FAL_KEY # <<>> /\ FAL_KEY[1] # ""

\* the mutant of ExitsAtStartup: the process exits when the key is missing
ExitsAtStartup_withoutKey(FAL_KEY) == ~KeyPresent(FAL_KEY)

\* whether loading the module ends the process: the branch for a missing key
\* only logs ("Server continues running, no process.exit()")
ExitsAtStartup(FAL_KEY) == FALSE

InFlight == {d \in Slots : pc[d] # "idle"}

\* the state after the module has been loaded: the flag is set from FAL_KEY
ServerInit ==
    /\ \E FAL_KEY \in FalKeys :
          /\ falConfigured = KeyPresent(FAL_KEY)
          /\ crashed = ExitsAtStartup(FAL_KEY)
    /\ window = 1
    /\ imagesReturned = 0
    /\ files = {}
    /\ orphans = {}
    /\ pc = [c \in Slots |-> "idle"]
    /\ tool = [c \in Slots |-> "none"]
    /\ args = [c \in Slots |-> EmptyObject]
    /\ gw = [c \in Slots |-> <<>>]
    /\ result = [c \in Slots |-> EmptyObject]
    /\ downloadedImages = [c \in Slots |-> <<>>]
    /\ i = [c \in Slots |-> 0]
    /\ dl = [c \in Slots |-> NoDownload]
    /\ response = [c \in Slots |-> NoResponse]

Init ==
    /\ ServerInit
    /\ namingSeed = <<>>
    /\ stage = "unused"
    /\ once = <<>>
    /\ twice = <<>>
    /\ generated = <<>>

\* the success response of the two handlers that download
DataResponse(t, a, res, imgs) ==
    IF t = "minimax_generate" THEN GenerateResponse(a, res, imgs)
    ELSE QueueResultResponse(a, res, imgs)

\* the head of the for loop with i = k: either the body starts (the filename is
\* generated and downloadImage runs up to its request) or the loop is left and
\* the handler formats and returns its response
LoopHead(c, k, imgs, res, now) ==
    IF k < Len(res.data.images)
    THEN /\ dl' = [dl EXCEPT ![c] =
                     StartDownload(res.data.images[k + 1].url,
                                   generateImageFilename(NamingSeedOf(tool[c], args[c]),
                                                         k + 1, SeedOf(res.data), now))]
         /\ pc' = [pc EXCEPT ![c] = "download"]
         /\ response' = response
    ELSE /\ dl' = [dl EXCEPT ![c] = NoDownload]
         /\ pc' = [pc EXCEPT ![c] = "done"]
         /\ response' = [response EXCEPT ![c] = DataResponse(tool[c], args[c], res, imgs)]

\* a tools/call request arrives: the dispatcher checks the arguments against the
\* inputSchema, then the handler runs up to its first await
ToolCall(c, t, a) ==
    /\ ~crashed
    /\ pc[c] = "idle"
    /\ \A d \in Slots : pc[d] = "idle" => c <= d
    /\ Cardinality(InFlight) < window
    /\ tool' = [tool EXCEPT ![c] = t]
    /\ args' = [args EXCEPT ![c] = a]
    /\ IF ~ValidArgs(t, a)
       THEN /\ response' = [response EXCEPT ![c] = SchemaRejection(t)]
            /\ pc' = [pc EXCEPT ![c] = "done"]
            /\ gw' = gw
       ELSE IF NotConfigured(t, falConfigured)
       THEN /\ response' = [response EXCEPT ![c] = NotConfiguredResponse]
            /\ pc' = [pc EXCEPT ![c] = "done"]
            /\ gw' = gw
       ELSE /\ gw' = [gw EXCEPT ![c] = GatewayCalls(t, a)]
            /\ pc' = [pc EXCEPT ![c] = "gateway"]
            /\ response' = response
    /\ UNCHANGED <<falConfigured, crashed, window, imagesReturned, files,
                   orphans, result, downloadedImages, i, dl, transformVars>>

\* the awaited gateway call rejects: the handler's catch block
GatewayFails(c, error) ==
    /\ ~crashed
    /\ pc[c] = "gateway"
    /\ result' = [result EXCEPT ![c] = [rejected |-> error]]
    /\ response' = [response EXCEPT ![c] = ErrorResponse(tool[c], error)]
    /\ pc' = [pc EXCEPT ![c] = "done"]
    /\ UNCHANGED <<falConfigured, crashed, window, imagesReturned, files, orphans,
                   tool, args, gw, downloadedImages, i, dl, transformVars>>

\* the awaited gateway call resolves
GatewayReturns(c, res, now) ==
    /\ ~crashed
    /\ pc[c] = "gateway"
    /\ res \in ResultsOf(tool[c])
    /\ imagesReturned' =
          imagesReturned + (IF Has(res, "data") THEN Len(res.data.images) ELSE 0)
    /\ imagesReturned' <= MaxImages
    /\ result' = [result EXCEPT ![c] = res]
    /\ IF tool[c] \in {"minimax_generate", "minimax_queue_result"}
       THEN /\ downloadedImages' = [downloadedImages EXCEPT ![c] = <<>>]
            /\ i' = [i EXCEPT ![c] = 0]
            /\ LoopHead(c, 0, <<>>, res, now)
       ELSE /\ response' = [response EXCEPT ![c] =
                              IF tool[c] = "minimax_generate_queue"
                              THEN GenerateQueueResponse(args[c], res)
                              ELSE QueueStatusResponse(args[c], res)]
            /\ pc' = [pc EXCEPT ![c] = "done"]
            /\ UNCHANGED <<downloadedImages, i, dl>>
    /\ UNCHANGED <<falConfigured, crashed, window, files, orphans, tool, args, gw,
                   transformVars>>

\* the await of downloadImage completes: the entry is pushed (with the path, or
\* in the catch with null), i++ and the loop head runs
AwaitDownload(c, now) ==
    /\ ~crashed
    /\ pc[c] = "download"
    /\ Settled(dl[c])
    /\ IF dl[c].phase = "rejected" /\ ~CaughtByDownloadCatch(dl[c])
       THEN /\ response' = [response EXCEPT ![c] =
                              ErrorResponse(tool[c], DownloadErrorOf(dl[c]))]
            /\ pc' = [pc EXCEPT ![c] = "done"]
            /\ dl' = [dl EXCEPT ![c] = NoDownload]
            /\ UNCHANGED <<downloadedImages, i>>
       ELSE LET entry == DownloadEntry(result[c].data.images[i[c] + 1],
                                       LocalPathOf(dl[c]), i[c] + 1, dl[c].filename)
                imgs == Append(downloadedImages[c], entry)
            IN /\ downloadedImages' = [downloadedImages EXCEPT ![c] = imgs]
               /\ i' = [i EXCEPT ![c] = i[c] + 1]
               /\ LoopHead(c, i[c] + 1, imgs, result[c], now)
    /\ UNCHANGED <<falConfigured, crashed, window, imagesReturned, files, orphans, tool, args, gw, result,
                   transformVars>>

\* fs.createWriteStream's open succeeds: the (empty) file exists
FileOpened(c) ==
    /\ ~crashed
    /\ dl[c].phase \in {"requested", "piping", "stalled"}
    /\ dl[c].file = "opening"
    /\ dl' = [dl EXCEPT ![c].file = "open"]
    /\ files' = files \cup {dl[c].filename}
    /\ UNCHANGED <<falConfigured, crashed, window, imagesReturned, orphans, pc, tool, args, gw,
                   result, downloadedImages, i, response, transformVars>>

\* the write stream emits 'error' (the open fails, or a write fails while the
\* response is piped): with the listener of line 79 the partial file is unlinked
\* and the promise rejects; without a listener the event is an uncaught
\* exception, which ends the process
FileError(c) ==
    /\ ~crashed
    /\ \/ dl[c].phase \in {"requested", "piping", "stalled"} /\ dl[c].file = "opening"
       \/ dl[c].phase = "piping" /\ dl[c].file = "open"
    /\ IF HasErrorListener(dl[c])
       THEN /\ dl' = [dl EXCEPT ![c].phase = "rejected", ![c].file = "none",
                                ![c].cause = "fileerror"]
            /\ files' = IF UnlinksPartialFile("fileerror")
                         THEN files \ {dl[c].filename} ELSE files
            /\ crashed' = crashed
       ELSE /\ crashed' = TRUE
            /\ dl' = [dl EXCEPT ![c].cause = "fileerror"]
            /\ files' = files
    /\ UNCHANGED <<falConfigured, window, imagesReturned, orphans, pc, tool, args, gw, result,
                   downloadedImages, i, response, transformVars>>

\* the callback of client.get: a non-200 status rejects (the write stream is left
\* as it is); a 200 pipes the response into the file and registers 'finish' and
\* 'error' on the stream
HttpResponse(c, status) ==
    /\ ~crashed
    /\ dl[c].phase = "requested"
    /\ IF status # 200
       THEN /\ dl' = [dl EXCEPT ![c].phase = "rejected", ![c].cause = "non200"]
            /\ orphans' = IF dl[c].file = "opening"
                          THEN orphans \cup {dl[c].filename} ELSE orphans
            /\ files' = IF UnlinksPartialFile("non200")
                         THEN files \ {dl[c].filename} ELSE files
       ELSE /\ dl' = [dl EXCEPT ![c].phase = "piping"]
            /\ orphans' = orphans
            /\ files' = files
    /\ UNCHANGED <<falConfigured, crashed, window, imagesReturned, pc, tool, args, gw,
                   result, downloadedImages, i, response, transformVars>>

\* the request emits 'error' before any response: reject(err)
RequestError(c) ==
    /\ ~crashed
    /\ dl[c].phase = "requested"
    /\ dl' = [dl EXCEPT ![c].phase = "rejected", ![c].cause = "reqerror"]
    /\ orphans' = IF dl[c].file = "opening"
                  THEN orphans \cup {dl[c].filename} ELSE orphans
    /\ files' = IF UnlinksPartialFile("reqerror")
                THEN files \ {dl[c].filename} ELSE files
    /\ UNCHANGED <<falConfigured, crashed, window, imagesReturned, pc, tool, args, gw,
                   result, downloadedImages, i, response, transformVars>>

\* the response ended and the stream flushed: 'finish', file.close(), resolve(filePath)
FileFinish(c) ==
    /\ ~crashed
    /\ dl[c].phase = "piping"
    /\ dl[c].file = "open"
    /\ dl' = [dl EXCEPT ![c].phase = "resolved"]
    /\ UNCHANGED <<falConfigured, crashed, window, imagesReturned, files, orphans, pc, tool,
                   args, gw, result, downloadedImages, i, response, transformVars>>

\* the response body is aborted or errors after the 200 status line: pipe does
\* not end the file, no listener is registered on the response, and neither
\* 'finish' nor reject follows
ResponseAborted(c) ==
    /\ ~crashed
    /\ dl[c].phase = "piping"
    /\ dl' = [dl EXCEPT ![c].phase = "stalled", ![c].cause = "aborted"]
    /\ UNCHANGED <<falConfigured, crashed, window, imagesReturned, files, orphans, pc, tool,
                   args, gw, result, downloadedImages, i, response, transformVars>>

\* a write stream left behind by a rejected download finishes opening
OrphanOpened(f) ==
    /\ ~crashed
    /\ f \in orphans
    /\ orphans' = orphans \ {f}
    /\ files' = files \cup {f}
    /\ UNCHANGED <<falConfigured, crashed, window, imagesReturned, pc, tool, args, gw, result,
                   downloadedImages, i, dl, response, transformVars>>

\* a write stream left behind by a rejected download fails to open: it has no
\* 'error' listener
OrphanError(f) ==
    /\ ~crashed
    /\ f \in orphans
    /\ crashed' = TRUE
    /\ UNCHANGED <<falConfigured, window, imagesReturned, files, orphans, pc, tool, args, gw, result,
                   downloadedImages, i, dl, response, transformVars>>

\* the response envelope is handed to the protocol layer and the call is over
Return(c) ==
    /\ ~crashed
    /\ pc[c] = "done"
    /\ pc' = [pc EXCEPT ![c] = "idle"]
    /\ tool' = [tool EXCEPT ![c] = "none"]
    /\ args' = [args EXCEPT ![c] = EmptyObject]
    /\ gw' = [gw EXCEPT ![c] = <<>>]
    /\ result' = [result EXCEPT ![c] = EmptyObject]
    /\ downloadedImages' = [downloadedImages EXCEPT ![c] = <<>>]
    /\ i' = [i EXCEPT ![c] = 0]
    /\ dl' = [dl EXCEPT ![c] = NoDownload]
    /\ response' = [response EXCEPT ![c] = NoResponse]
    /\ UNCHANGED <<falConfigured, crashed, window, imagesReturned, files, orphans,
                   transformVars>>

Next ==
    \/ \E c \in Slots, t \in Tools : \E a \in ArgsOf(t) : ToolCall(c, t, a)
    \/ \E c \in Slots, error \in GatewayErrors : GatewayFails(c, error)
    \/ \E c \in Slots, res \in DataResults \cup SubmitResults \cup StatusResults :
          \E now \in Milliseconds : GatewayReturns(c, res, now)
    \/ \E c \in Slots, now \in Milliseconds : AwaitDownload(c, now)
    \/ \E c \in Slots : FileOpened(c)
    \/ \E c \in Slots : FileError(c)
    \/ \E c \in Slots, status \in HttpStatuses : HttpResponse(c, status)
    \/ \E c \in Slots : RequestError(c)
    \/ \E c \in Slots : FileFinish(c)
    \/ \E c \in Slots : ResponseAborted(c)
    \/ \E f \in orphans : OrphanOpened(f)
    \/ \E f \in orphans : OrphanError(f)
    \/ \E c \in Slots : Return(c)

Spec == Init /\ [][Next]_vars

\* the steps that carry call c forward: the event loop runs every continuation
\* and callback that is ready, the gateway call returns or fails, the HTTP
\* request delivers a response or an error, and a stream that can open, finish
\* or fail does so
Progress(c) ==
    \/ \E error \in GatewayErrors : GatewayFails(c, error)
    \/ \E res \in DataResults \cup SubmitResults \cup StatusResults :
          \E now \in Milliseconds : GatewayReturns(c, res, now)
    \/ \E now \in Milliseconds : AwaitDownload(c, now)
    \/ FileOpened(c)
    \/ FileError(c)
    \/ \E status \in HttpStatuses : HttpResponse(c, status)
    \/ RequestError(c)
    \/ FileFinish(c)
    \/ ResponseAborted(c)
    \/ Return(c)

SpecFair == Spec /\ \A c \in Slots : WF_vars(Progress(c))

----------------------------------------------------------------------------
(* The sanitize-and-truncate transform on its own *)

SeedChars == {"a", "B", "1", " ", "\t", "_", "!", "/", "."}

\* a run of letters that brings a naming seed up to the truncation length
Padding == [k \in 1..(MaxPromptChars - 2) |-> "x"]

\* request ids, one of them a path that climbs out of a directory
TransformRequestIds == RequestIds \cup {<<".", ".", "/", ".", ".", "/", "x">>}

NamingSeeds ==
    {pad \o core : pad \in {<<>>, Padding}, core \in SeqsUpTo(SeedChars, MaxSeedLen)}
    \cup {NamingSeedOf("minimax_queue_result", [request_id |-> r]) :
             r \in TransformRequestIds}

\* the ordinals and seeds a filename is generated with
Ordinals == {1, 2, 10}
FilenameSeeds == {<<>>, <<0>>, <<7>>, <<12>>, <<0 - 3>>}

InitTransform ==
    /\ ServerInit
    /\ namingSeed \in NamingSeeds
    /\ stage = "seed"
    /\ once = <<>>
    /\ twice = <<>>
    /\ generated = <<>>

ApplyOnce ==
    /\ stage = "seed"
    /\ once' = SafePrompt(namingSeed)
    /\ stage' = "once"
    /\ UNCHANGED <<namingSeed, twice, generated, serverVars>>

ApplyTwice ==
    /\ stage = "once"
    /\ twice' = SafePrompt(once)
    /\ stage' = "twice"
    /\ UNCHANGED <<namingSeed, once, generated, serverVars>>

\* generateImageFilename(namingSeed, index, seed) at the time now
ApplyFilename(index, seed, now) ==
    /\ stage = "seed"
    /\ once' = SafePrompt(namingSeed)
    /\ generated' = generateImageFilename(namingSeed, index, seed, now)
    /\ stage' = "filename"
    /\ UNCHANGED <<namingSeed, twice, serverVars>>

NextTransform ==
    \/ ApplyOnce
    \/ ApplyTwice
    \/ \E index \in Ordinals, seed \in FilenameSeeds, now \in Milliseconds :
          ApplyFilename(index, seed, now)

SpecTransform == InitTransform /\ [][NextTransform]_vars

----------------------------------------------------------------------------
(* Two calls in progress at once: the MCP client keeps two requests            *)
(* outstanding, and the handlers interleave at their awaits                    *)

\* two prompts whose sanitized forms differ by a trailing "_7"
ConcurrentPrompts == {<<"a", " ", "b">>, <<"a", " ", "b", " ", "7">>}
ConcurrentArgs == {[prompt |-> p] : p \in ConcurrentPrompts}
\* two successive milliseconds of the clock
ConcurrentMilliseconds == {<<"0", "0", "0">>, <<"0", "0", "1">>}
\* results whose images have well-formed urls
ConcurrentResults ==
    {r \in DataResults :
        /\ Len(r.data.images) >= 1
        /\ \A k \in 1..Len(r.data.images) : r.data.images[k].url \notin InvalidUrls}

InitConcurrent ==
    /\ \E FAL_KEY \in FalKeys :
          /\ KeyPresent(FAL_KEY)
          /\ falConfigured = KeyPresent(FAL_KEY)
          /\ crashed = ExitsAtStartup(FAL_KEY)
    /\ window = 2
    /\ imagesReturned = 0
    /\ files = {}
    /\ orphans = {}
    /\ pc = [c \in Slots |-> "idle"]
    /\ tool = [c \in Slots |-> "none"]
    /\ args = [c \in Slots |-> EmptyObject]
    /\ gw = [c \in Slots |-> <<>>]
    /\ result = [c \in Slots |-> EmptyObject]
    /\ downloadedImages = [c \in Slots |-> <<>>]
    /\ i = [c \in Slots |-> 0]
    /\ dl = [c \in Slots |-> NoDownload]
    /\ response = [c \in Slots |-> NoResponse]
    /\ namingSeed = <<>>
    /\ stage = "unused"
    /\ once = <<>>
    /\ twice = <<>>
    /\ generated = <<>>

NextConcurrent ==
    \/ \E c \in Slots, a \in ConcurrentArgs : ToolCall(c, "minimax_generate", a)
    \/ \E c \in Slots, res \in ConcurrentResults, now \in ConcurrentMilliseconds :
          GatewayReturns(c, res, now)
    \/ \E c \in Slots, now \in ConcurrentMilliseconds : AwaitDownload(c, now)
    \/ \E c \in Slots : FileOpened(c)
    \/ \E c \in Slots : FileError(c)
    \/ \E c \in Slots, status \in HttpStatuses : HttpResponse(c, status)
    \/ \E c \in Slots : RequestError(c)
    \/ \E c \in Slots : FileFinish(c)
    \/ \E c \in Slots : ResponseAborted(c)
    \/ \E f \in orphans : OrphanOpened(f)
    \/ \E f \in orphans : OrphanError(f)
    \/ \E c \in Slots : Return(c)

SpecConcurrent == InitConcurrent /\ [][NextConcurrent]_vars

----------------------------------------------------------------------------
(* Claims *)

Downloading == {"minimax_generate", "minimax_queue_result"}

\* the gateway call of call c was made and resolved / was made and rejected
UpstreamSucceeded(c) == gw[c] # <<>> /\ result[c] # EmptyObject /\ ~Has(result[c], "rejected")
UpstreamFailed(c) == gw[c] # <<>> /\ Has(result[c], "rejected")

\* C1: without the credential, no call of any tool ever reaches the gateway or
\* starts a download, no image is returned and no file appears, and every
\* response of a handler is the error-flagged one
C1_NoNetworkWithoutCredential ==
    ~falConfigured =>
        /\ imagesReturned = 0 /\ files = {} /\ orphans = {}
        /\ \A c \in Slots :
              /\ gw[c] = <<>>
              /\ dl[c] = NoDownload
              /\ pc[c] \in {"idle", "done"}
              /\ pc[c] = "done" => response[c].isError
              /\ pc[c] = "done" /\ ValidArgs(tool[c], args[c])
                    => response[c] = NotConfiguredResponse

C1_Witness ==
    /\ ~falConfigured
    /\ \E c \in Slots :
          /\ pc[c] = "done"
          /\ tool[c] = "minimax_queue_status"
          /\ response[c] = NotConfiguredResponse

\* C2: no failure escapes a handler: the process is never ended by an uncaught
\* exception, and every finished invocation holds a response envelope with a text
C2_NoFailureEscapes ==
    /\ ~crashed
    /\ \A c \in Slots : pc[c] = "done" => response[c].text # <<>>

\* C3: the entries pushed by the download loop follow the returned image
\* descriptors: as many as iterations done, entry k with the url of image k and
\* index k, and all n of them once the handler returns its success response
C3_EntriesFollowImages ==
    \A c \in Slots :
        (tool[c] \in Downloading /\ UpstreamSucceeded(c)) =>
            LET imgs == downloadedImages[c]
                images == result[c].data.images
            IN /\ Len(imgs) = i[c]
               /\ Len(imgs) <= Len(images)
               /\ \A k \in 1..Len(imgs) :
                     imgs[k].url = images[k].url /\ imgs[k].index = k
               /\ pc[c] = "done" => Len(imgs) = Len(images)

C3_Witness ==
    \E c \in Slots :
        /\ pc[c] = "done" /\ tool[c] = "minimax_generate"
        /\ Len(downloadedImages[c]) = 2
        /\ downloadedImages[c][1].url # downloadedImages[c][2].url
        /\ downloadedImages[c][1].localPath = <<>>
        /\ downloadedImages[c][2].localPath # <<>>

\* C4: a download that fails by a non-200 response or by a stream error does
\* not keep the images after it from being attempted: the loop can go on (the
\* promise is rejected and the process runs)
C4_FailureIsolation ==
    \A c \in Slots :
        (/\ pc[c] = "download"
         /\ dl[c].cause \in {"non200", "fileerror", "aborted"}
         /\ i[c] + 1 < Len(result[c].data.images))
            => ~crashed /\ dl[c].phase = "rejected"

\* C5: when the upstream call succeeded the response is a success that lists
\* every returned image, whatever the downloads did; the response of a call
\* that reached the gateway is error-flagged only when the upstream call failed
C5_SuccessUnlessUpstreamFailed ==
    \A c \in Slots :
        (pc[c] = "done" /\ tool[c] \in Downloading /\ gw[c] # <<>>) =>
            /\ response[c].isError <=> UpstreamFailed(c)
            /\ UpstreamSucceeded(c) =>
                  \A k \in 1..Len(result[c].data.images) :
                      Contains(response[c].text,
                               <<"\n  Original URL: ", result[c].data.images[k].url>>)

C5_Witness ==
    \E c \in Slots :
        /\ pc[c] = "done" /\ tool[c] = "minimax_queue_result"
        /\ ~response[c].isError
        /\ Len(downloadedImages[c]) = 2
        /\ \A k \in 1..2 : downloadedImages[c][k].localPath = <<>>
        /\ downloadedImages[c][1].filename # downloadedImages[c][2].filename

\* C6 as claimed: on every path of minimax_queue_status the text of the
\* response contains the request id
C6_StatusTextHasRequestId ==
    \A c \in Slots :
        (pc[c] = "done" /\ tool[c] = "minimax_queue_status"
            /\ Has(args[c], "request_id"))
            => Contains(response[c].text, args[c]["request_id"])

\* C6 as amended: the text contains the request id when the status was
\* obtained; on the two failure paths it is the fixed error text, with the
\* underlying message appended when the gateway call failed
C6_StatusTextHasRequestIdOnSuccess ==
    \A c \in Slots :
        (pc[c] = "done" /\ tool[c] = "minimax_queue_status"
            /\ Has(args[c], "request_id"))
            => IF UpstreamSucceeded(c)
               THEN /\ ~response[c].isError
                    /\ Contains(response[c].text,
                                <<"Queue Status for Request ID: ">> \o args[c]["request_id"])
               ELSE /\ response[c].isError
                    /\ \/ response[c] = NotConfiguredResponse
                       \/ /\ UpstreamFailed(c)
                          /\ response[c].text =
                                <<"Failed to check queue status.", " Error: ">>
                                    \o result[c].rejected.message

C6_Witness ==
    \E c \in Slots :
        /\ pc[c] = "done" /\ tool[c] = "minimax_queue_status"
        /\ UpstreamSucceeded(c)
        /\ args[c]["request_id"] = <<"a", "b", "c", "1", "2", "3">>
        /\ Has(result[c], "logs") /\ Len(result[c]["logs"]) > 0

\* C7 as claimed: the text of a successful minimax_generate_queue response
\* contains the request id the submit returned and the aspect ratio of the call
C7_SubmitTextHasIdAndRatio ==
    \A c \in Slots :
        (pc[c] = "done" /\ tool[c] = "minimax_generate_queue"
            /\ UpstreamSucceeded(c) /\ Has(args[c], "aspect_ratio"))
            => /\ Contains(response[c].text, result[c].request_id)
               /\ Contains(response[c].text, <<args[c]["aspect_ratio"]>>)

\* C7 as amended: the text contains the returned request id and the prompt; the
\* aspect ratio goes to the gateway in the request body and is not in the text
C7_SubmitTextHasIdAndPrompt ==
    \A c \in Slots :
        (pc[c] = "done" /\ tool[c] = "minimax_generate_queue" /\ UpstreamSucceeded(c))
            => /\ ~response[c].isError
               /\ Contains(response[c].text, result[c].request_id)
               /\ Contains(response[c].text, args[c]["prompt"] \o <<"\"\n">>)
               /\ Has(args[c], "aspect_ratio") =>
                     /\ gw[c][1].input["aspect_ratio"] = args[c]["aspect_ratio"]
                     /\ ~Contains(response[c].text, <<args[c]["aspect_ratio"]>>)

C7_Witness ==
    \E c \in Slots :
        /\ pc[c] = "done" /\ tool[c] = "minimax_generate_queue"
        /\ UpstreamSucceeded(c)
        /\ Has(args[c], "aspect_ratio") /\ args[c]["aspect_ratio"] = "16:9"
        /\ result[c].request_id = <<"a", "b", "c", "1", "2", "3">>

WithoutUnderscores(s) == SelectSeq(s, LAMBDA ch : ch # "_")

\* C9 as claimed: the transform applied twice gives what it gives applied once
C9_TransformIdempotent == stage = "twice" => twice = once

\* C9 as amended: the second application removes the underscores the first one
\* produced, so the two agree exactly when the first result has no underscore
C9_SecondPassDropsUnderscores ==
    stage = "twice" =>
        /\ twice = WithoutUnderscores(once)
        /\ twice = once <=> (\A k \in 1..Len(once) : once[k] # "_")
        /\ (\A k \in 1..Len(namingSeed) : namingSeed[k] \notin WhitespaceChars)
              => twice = once

C9_Witness ==
    /\ stage = "twice"
    /\ Len(namingSeed) > MaxPromptChars
    /\ Len(once) = MaxPromptChars
    /\ twice # once

\* C10: a failed gateway call gives the error-flagged response whose text is
\* the handler's failure sentence with the underlying message appended, and
\* no invocation makes more than one gateway call
C10_UpstreamFailureReported ==
    \A c \in Slots :
        /\ Len(gw[c]) <= 1
        /\ UpstreamFailed(c) =>
              /\ pc[c] = "done"
              /\ response[c].isError
              /\ response[c].text =
                    <<FailurePrefix(tool[c]), " Error: ">> \o result[c].rejected.message

C10_Witness ==
    \E c \in Slots :
        /\ UpstreamFailed(c)
        /\ tool[c] = "minimax_generate"
        /\ result[c].rejected.message = <<"Unprocessable Entity">>
        /\ Contains(response[c].text, <<"Unprocessable Entity">>)

\* C11: the input minimax_generate forwards carries the caller's prompt, the
\* caller's aspect_ratio, num_images and sync_mode or else "1:1", 1 and true,
\* prompt_optimizer exactly when the caller supplied it, and nothing else
C11_DefaultsForwarded ==
    \A c \in Slots :
        (tool[c] = "minimax_generate" /\ gw[c] # <<>>) =>
            LET a == args[c]
                call == gw[c][1]
                input == call.input
            IN /\ call.op = "subscribe" /\ call.endpoint = "fal-ai/minimax/image-01"
               /\ input["prompt"] = a["prompt"]
               /\ input["aspect_ratio"] =
                     (IF Has(a, "aspect_ratio") THEN a["aspect_ratio"] ELSE "1:1")
               /\ input["num_images"] =
                     (IF Has(a, "num_images") THEN a["num_images"] ELSE 1)
               /\ input["sync_mode"] =
                     (IF Has(a, "sync_mode") THEN a["sync_mode"] ELSE TRUE)
               /\ Has(input, "prompt_optimizer") <=> Has(a, "prompt_optimizer")
               /\ Has(a, "prompt_optimizer")
                     => input["prompt_optimizer"] = a["prompt_optimizer"]
               /\ DOMAIN input \subseteq
                     {"prompt", "aspect_ratio", "num_images", "sync_mode", "prompt_optimizer"}

\* a call that omits the three defaulted fields and supplies prompt_optimizer false
C11_Witness ==
    \E c \in Slots :
        /\ tool[c] = "minimax_generate" /\ pc[c] = "gateway"
        /\ DOMAIN args[c] = {"prompt", "prompt_optimizer"}
        /\ args[c]["prompt_optimizer"] = FALSE
        /\ gw[c][1].input =
              [prompt |-> args[c]["prompt"], aspect_ratio |-> "1:1", num_images |-> 1,
               sync_mode |-> TRUE, prompt_optimizer |-> FALSE]

\* C12: no step of the server changes the credential flag, and without the
\* credential the process keeps running, its handlers answering every call
\* that reaches them with an error response
C12_FlagSetOnce ==
    /\ [][falConfigured' = falConfigured]_vars
    /\ [](~falConfigured =>
             /\ ~crashed
             /\ \A c \in Slots : pc[c] = "done" => response[c].isError
             /\ (\A c \in Slots : pc[c] = "idle") =>
                   ENABLED (\E t \in Tools : \E a \in ArgsOf(t) : ToolCall(1, t, a)))

\* a minimax_generate call answered without the credential, the process running
C12_Witness ==
    /\ ~falConfigured /\ ~crashed
    /\ \E c \in Slots :
          /\ pc[c] = "done"
          /\ tool[c] = "minimax_generate"
          /\ response[c] = NotConfiguredResponse

\* C13: a download of a call is started only when the call has no download
\* that is still pending (the previous one has resolved or rejected), and the
\* download in progress is the one of image i + 1, all earlier images having
\* their entry already
C13_DownloadsSequential ==
    /\ [][\A c \in Slots :
             (pc'[c] = "download" /\ (pc[c] # "download" \/ i'[c] # i[c]))
                 => dl[c].phase \in {"none", "resolved", "rejected"}]_vars
    /\ [](\A c \in Slots :
             pc[c] = "download" =>
                 /\ i[c] < Len(result[c].data.images)
                 /\ dl[c].url = result[c].data.images[i[c] + 1].url
                 /\ Len(downloadedImages[c]) = i[c])

\* the second download of a call in progress after the first one was rejected
C13_Witness ==
    \E c \in Slots :
        /\ pc[c] = "download" /\ i[c] = 1
        /\ tool[c] = "minimax_queue_result"
        /\ dl[c].phase = "piping"
        /\ downloadedImages[c][1].localPath = <<>>

\* the calls that neither download nor touch images/
QueueOnly == {"minimax_generate_queue", "minimax_queue_status"}

\* C14: the body minimax_generate_queue submits has the caller's fields except
\* webhook_url, each with the caller's value; webhook_url goes beside it as
\* webhookUrl; minimax_generate_queue and minimax_queue_status never start a
\* download, and every file or write stream that appears in images/ is the one
\* of a download of a minimax_generate or minimax_queue_result call
C14_SubmitBodyAndNoFiles ==
    /\ [](\A c \in Slots :
             /\ (tool[c] = "minimax_generate_queue" /\ gw[c] # <<>>) =>
                   LET call == gw[c][1]
                   IN /\ Len(gw[c]) = 1 /\ call.op = "queue.submit"
                      /\ DOMAIN call.input = DOMAIN args[c] \ {"webhook_url"}
                      /\ \A k \in DOMAIN call.input : call.input[k] = args[c][k]
                      /\ call.webhookUrl =
                            (IF Has(args[c], "webhook_url")
                             THEN <<args[c]["webhook_url"]>> ELSE <<>>)
             /\ tool[c] \in QueueOnly =>
                   /\ dl[c] = NoDownload
                   /\ downloadedImages[c] = <<>>
                   /\ pc[c] # "download")
    /\ [][\A f \in (files' \ files) \cup (orphans' \ orphans) :
             \/ f \in orphans
             \/ \E c \in Slots :
                   /\ tool[c] \in Downloading /\ dl[c].filename = f]_vars

\* a submitted request whose caller gave a webhook and other fields
C14_Witness ==
    \E c \in Slots :
        /\ tool[c] = "minimax_generate_queue" /\ pc[c] = "done"
        /\ ~response[c].isError
        /\ DOMAIN args[c] = {"prompt", "aspect_ratio", "num_images", "webhook_url"}
        /\ DOMAIN gw[c][1].input = {"prompt", "aspect_ratio", "num_images"}
        /\ gw[c][1].webhookUrl = <<"https://hook.example/cb">>
        /\ files = {} /\ orphans = {}

\* C15: whenever the write stream of a download has emitted 'error', the file
\* is gone from images/, the download is rejected (its entry gets a null local
\* path) and the process goes on
C15_WriteErrorDeletesAndFails ==
    \A c \in Slots :
        dl[c].cause = "fileerror" =>
            /\ ~crashed
            /\ dl[c].phase = "rejected"
            /\ LocalPathOf(dl[c]) = <<>>
            /\ dl[c].filename \notin files

\* s begins with the characters of prefix
StartsWith(s, prefix) ==
    Len(s) >= Len(prefix) /\ SubSeq(s, 1, Len(prefix)) = prefix

\* the beginning of the filename of image k when the result's seed is shown in
\* it exactly when the result carries one
NameWithSeed(c, k) ==
    <<"m", "i", "n", "i", "m", "a", "x", "_">>
        \o SafePrompt(NamingSeedOf(tool[c], args[c]))
        \o (IF Has(result[c].data, "seed")
            THEN <<"_">> \o NumberToString(result[c].data["seed"]) ELSE <<>>)
        \o <<"_">> \o NumberToString(k) \o <<"_">>

\* C16: in the success response of minimax_generate and minimax_queue_result
\* the seed of the result is shown when it carries one (0 included) and
\* "Auto-generated" only when it carries none, and the filename of every image
\* has the _{seed} suffix exactly when the result carries a seed
C16_SeedShownAndSuffixed ==
    \A c \in Slots :
        (tool[c] \in Downloading /\ UpstreamSucceeded(c) /\ pc[c] = "done") =>
            LET out == result[c].data
                text == response[c].text
            IN /\ Has(out, "seed") =>
                     Contains(text, <<"Seed: ">> \o NumberToString(out["seed"]))
               /\ Contains(text, <<"Seed: Auto-generated">>) <=> ~Has(out, "seed")
               /\ \A k \in 1..Len(downloadedImages[c]) :
                     StartsWith(downloadedImages[c][k].filename, NameWithSeed(c, k))

\* the timestamp inside a filename: the 24 characters before ".png"
StampOf(filename) == SubSeq(filename, Len(filename) - 27, Len(filename) - 4)

\* C17: the filenames generated inside one call are pairwise distinct, and two
\* calls in progress have the same download target only when their sanitized
\* naming seed, their seed value, their ordinal and their timestamp coincide
C17_DistinctFiles ==
    /\ \A c \in Slots :
          /\ \A j, k \in 1..Len(downloadedImages[c]) :
                j # k => downloadedImages[c][j].filename # downloadedImages[c][k].filename
          /\ pc[c] = "download" =>
                \A k \in 1..Len(downloadedImages[c]) :
                    downloadedImages[c][k].filename # dl[c].filename
    /\ \A c, d \in Slots :
          (c # d /\ pc[c] = "download" /\ pc[d] = "download"
               /\ dl[c].filename = dl[d].filename) =>
              /\ SafePrompt(NamingSeedOf(tool[c], args[c]))
                    = SafePrompt(NamingSeedOf(tool[d], args[d]))
              /\ SeedOf(result[c].data) = SeedOf(result[d].data)
              /\ i[c] = i[d]
              /\ StampOf(dl[c].filename) = StampOf(dl[d].filename)

\* C18: every call that has reached the gateway eventually holds its response,
\* and every download that was started eventually resolves or rejects
C18_EveryCallReturns ==
    \A c \in Slots :
        /\ (pc[c] \in {"gateway", "download"}) ~> (pc[c] = "done")
        /\ (dl[c].phase \in {"requested", "piping"}) ~> Settled(dl[c])

\* the characters the filename is claimed to consist of
PlainChars == LowerLetters \cup Digits \cup {"_", "-", "."}
PathSeparators == {"/", "\\"}
AllIn(str, chars) == \A k \in 1..Len(str) : str[k] \in chars

\* C19 as claimed: the generated filename has only lowercase letters, digits,
\* underscores, dashes and dots, its prompt-derived part has at most 50
\* characters, and it has no path separator
C19_FilenameCharsPlain ==
    stage = "filename" =>
        /\ AllIn(generated, PlainChars)
        /\ Len(once) <= 50
        /\ AllIn(generated, PlainChars \ PathSeparators)

\* C19 as amended: the same, except that the timestamp carries the upper-case
\* T and Z of the ISO format; everything before the timestamp is lowercase
\* letters, digits, underscores and dashes, and the name ends in ".png"
C19_FilenameCharsWithStamp ==
    stage = "filename" =>
        LET n == Len(generated)
        IN /\ n >= 28 + 8 + 3
           /\ StartsWith(generated, <<"m", "i", "n", "i", "m", "a", "x", "_">> \o once)
           /\ Len(once) <= 50
           /\ AllIn(SubSeq(generated, 1, n - 28), LowerLetters \cup Digits \cup {"_", "-"})
           /\ AllIn(StampOf(generated), Digits \cup {"-", "T", "Z"})
           /\ StampOf(generated)[11] = "T" /\ StampOf(generated)[24] = "Z"
           /\ SubSeq(generated, n - 3, n) = <<".", "p", "n", "g">>
           /\ \A k \in 1..n : generated[k] \notin PathSeparators
           /\ generated \notin {<<".">>, <<".", ".">>}

\* a filename generated from a request id that is a climbing path, with a
\* negative seed
C19_Witness ==
    /\ stage = "filename"
    /\ Contains(namingSeed, <<".", ".", "/", ".", ".", "/">>)
    /\ Contains(generated, <<"_", "-", "3", "_", "1", "0", "_">>)
    /\ once = <<"q", "u", "e", "u", "e", "r", "e", "s", "u", "l", "t", "x">>

\* C20: the write stream of a download is created before the response is known;
\* after a rejection for a non-200 status or a request error the file is in
\* images/ (or its stream is still opening) while the local path is null; and a
\* file leaves images/ only through the write-error listener of its download
C20_FileLeftAfterRejection ==
    /\ [](\A c \in Slots :
             /\ dl[c].phase = "requested" => dl[c].file \in {"opening", "open"}
             /\ (dl[c].phase = "rejected" /\ dl[c].cause \in {"non200", "reqerror"}) =>
                   /\ dl[c].filename \in files \cup orphans
                   /\ LocalPathOf(dl[c]) = <<>>)
    /\ [][\A f \in files \ files' :
             \E c \in Slots :
                 /\ dl[c].filename = f
                 /\ dl[c].cause # "fileerror" /\ dl'[c].cause = "fileerror"]_vars

\* the first image's download was rejected for its status and its entry has a
\* null local path, the second one is rejected too, and both files are there
C20_Witness ==
    \E c \in Slots :
        /\ pc[c] = "download" /\ i[c] = 1
        /\ downloadedImages[c][1].localPath = <<>>
        /\ downloadedImages[c][1].filename \in files
        /\ dl[c].phase = "rejected" /\ dl[c].cause = "non200"
        /\ dl[c].filename \in files
        /\ Cardinality(files) = 2

====
